---------------------------- MODULE Spec2Model ----------------------------
(***************************************************************************)
(* Model of the transcription web service (web/app.py and                  *)
(* web/transcription_service.py): the chunk planner, the transcription     *)
(* driver with its temporary chunk files, the service pipeline             *)
(* (process_file / process_url) and the job registry (active_jobs) written *)
(* by one worker thread per job and read by status polls, and the          *)
(* retention sweep (cleanup_old_files) of the working directories.         *)
(*                                                                         *)
(* Time values (durations, offsets) are counted in ticks of half a second, *)
(* the resolution of the planner's 0.5 s pad: Seconds(600) is 600 s.       *)
(***************************************************************************)
EXTENDS Integers, Sequences, FiniteSets, TLC

(***************************************************************************)
(* Time                                                                    *)
(***************************************************************************)
Seconds(n) == 2 * n

\* the 0.5 s pad of get_audio_chunks, in ticks
HalfSecondPad == 1

\* get_audio_chunks(max_duration = 600)
DEFAULT_MAX_DURATION == Seconds(600)

\* overlap = 10
overlap == Seconds(10)

Min(a, b) == IF a <= b THEN a ELSE b

(***************************************************************************)
(* Bounds of the planner specification                                     *)
(***************************************************************************)
\* largest probed duration the planner specification enumerates, in ticks
MaxPlanTicks == 3700

(***************************************************************************)
(* Chunk planner: TranscriptionService.get_audio_chunks                    *)
(***************************************************************************)
\* a planner that forgets the pad of the single window
ShortPlanNoPad(duration) == << <<0, duration>> >>

\* return [(0, duration + 0.5)]
ShortPlan(duration) == << <<0, duration + HalfSecondPad>> >>

\* a planner that forgets the cap of min(max_duration, remaining)
ChunkDurationUncapped(remaining, max_duration) ==
    IF remaining <= max_duration + overlap
    THEN remaining + HalfSecondPad
    ELSE remaining

\* a planner that folds the tail one overlap too early
ChunkDurationFoldWide(remaining, max_duration) ==
    IF remaining <= max_duration + 2 * overlap
    THEN remaining + HalfSecondPad
    ELSE Min(max_duration, remaining)

\* a planner whose windows stop half a second short: the last one never
\* reaches the duration
ChunkDurationShort(remaining, max_duration) ==
    Min(max_duration, remaining) - HalfSecondPad

\* chunk_duration = min(max_duration, remaining), replaced by
\* remaining + 0.5 when remaining <= max_duration + overlap
ChunkDuration(remaining, max_duration) ==
    IF remaining <= max_duration + overlap
    THEN remaining + HalfSecondPad
    ELSE Min(max_duration, remaining)

\* a stride that forgets the overlap and skips past the window's end
NextStartGap(start, max_duration) == start + max_duration + overlap

\* a stride of a whole window, which leaves no overlap
NextStartNoOverlap(start, max_duration) == start + max_duration

\* start += max_duration - overlap
NextStart(start, max_duration) == start + max_duration - overlap

RECURSIVE PlanLoop(_, _, _, _)
\* the while loop of get_audio_chunks, entered with start and chunks
PlanLoop(duration, max_duration, start, chunks) ==
    IF ~(start < duration)
    THEN chunks
    ELSE LET remaining      == duration - start
             chunk_duration == ChunkDuration(remaining, max_duration)
             appended       == Append(chunks, <<start, chunk_duration>>)
         IN  IF start + chunk_duration >= duration
             THEN appended
             ELSE PlanLoop(duration, max_duration,
                           NextStart(start, max_duration), appended)

\* get_audio_chunks once the duration is probed; the single-window test
\* compares with the literal 600, not with max_duration
get_audio_chunks(duration, max_duration) ==
    IF duration <= Seconds(600)
    THEN ShortPlan(duration)
    ELSE PlanLoop(duration, max_duration, 0, << >>)

WindowStart(win) == win[1]
WindowLength(win) == win[2]
WindowEnd(win) == win[1] + win[2]


(***************************************************************************)
(* Bounds of the service specification                                     *)
(***************************************************************************)
\* the probed durations of the service specification give 1..MaxChunks windows
MaxChunks == 3

\* chunk requests one chunked upload may send before it is finalized
MaxUploadChunks == 1

\* job identifiers (uuid4 values) and upload identifiers (chosen by the client)
JobIds == {"j1", "j2"}
UploadIds == {"u1"}

\* texts the transcription API may return for a chunk, as character sequences
Texts == { <<"H", "i">>, << >>, <<"\n">> }

\* a duration with k + 1 windows: k full strides and a tail of 300 s
DurationWith(k) == k * (DEFAULT_MAX_DURATION - overlap) + Seconds(300)

\* what ffprobe may report: 0 and one duration for each number of windows
ProbeDurations == {0} \cup { DurationWith(k) : k \in 0..(MaxChunks - 1) }

(***************************************************************************)
(* Values                                                                  *)
(***************************************************************************)
\* Python's None and a present value, as sequences of length 0 and 1
None == << >>
Some(v) == <<v>>

\* str(n) inside an f-string
Str(n) == ToString(n)

\* paths of the working directories and of mkstemp's files
UploadPath(j) == <<"uploads", j>>
ChunkDir(u) == <<"chunks", u>>
AudioPath(j) == <<"audio", j>>
TempPath(j, n) == <<"tmp", j, Str(n)>>

RECURSIVE JoinRest(_, _)
\* sep.join's tail: every further part preceded by the separator
JoinRest(sep, parts) ==
    IF parts = << >> THEN << >>
    ELSE sep \o Head(parts) \o JoinRest(sep, Tail(parts))

\* a join that also ends the transcript with the separator
JoinTrailing(sep, parts) ==
    IF parts = << >> THEN << >>
    ELSE Head(parts) \o JoinRest(sep, Tail(parts)) \o sep

\* sep.join(parts)
Join(sep, parts) ==
    IF parts = << >> THEN << >>
    ELSE Head(parts) \o JoinRest(sep, Tail(parts))

\* the separator of transcribe_audio's return statement
BlankLine == <<"\n", "\n">>

(***************************************************************************)
(* Exception messages, as sequences of message fragments                   *)
(***************************************************************************)
\* RuntimeError(f"Failed to process audio chunk {i+1}/{len(chunks)}: {e}")
ChunkError(i, n, inner) ==
    <<"Failed to process audio chunk ", Str(i + 1), "/", Str(n), ": ">> \o inner

\* RuntimeError(f"Processing failed: {str(e)}")
ProcessingFailed(inner) == <<"Processing failed: ">> \o inner

\* RuntimeError(f"URL processing failed: {str(e)}")
UrlProcessingFailed(inner) == <<"URL processing failed: ">> \o inner

NoApiKey == <<"OpenAI API key not configured. Please go to Settings to configure your API key.">>
InputNotFound == <<"Input file not found: ", "input_path">>
ConnectFailed == <<"Failed to connect to OpenAI API: ", "e">>
ProbeFailed == <<"Could not determine audio duration: ", "e">>
FfmpegTimedOut == <<"ffmpeg timed out while extracting audio chunk">>
FfmpegFailed == <<"ffmpeg audio extraction failed: ", "stderr">>
EmptyExtraction == <<"Audio extraction produced empty file">>
FfmpegNotRun == <<"[Errno 2] No such file or directory: 'ffmpeg'">>
UploadFailed == <<"transcription API error">>
AnalysisFailed == <<"Failed to create financial analysis: ", "e">>
NoAudioDownloaded == <<"No audio files were downloaded. The URL might not contain audio content or may require authentication.">>
DownloadErrors ==
    { <<"YouTube requires authentication for this video. Please try a different video or use a direct audio file URL instead.">>,
      <<"Video is unavailable or has been removed.">>,
      <<"Video is private and cannot be accessed.">>,
      <<"Download failed: ", "error_output">>,
      <<"Download timed out after 10 minutes. The file might be too large or the connection is slow.">> }

(***************************************************************************)
(* State                                                                   *)
(***************************************************************************)
VARIABLES
    planIn,       \* the planner specification: the probed duration
    planMax,      \* the max_duration argument of the planner's call
    planOut,      \* the windows the planner returned for it
    planDone,     \* whether the planner was called
    planStart,    \* the planner's local start while its loop is stepped
    sweepIn,      \* the sweep specification: the directories' entries
    sweepOut,     \* what the sweep left of them, and the failure it met
    sweepDone,    \* whether the sweep was called
    env,          \* what the clients and the collaborators do in the run
    active_jobs,  \* app.active_jobs: job id -> record
    disk,         \* the paths that exist
    stale,        \* the paths whose mtime is older than the sweep's cutoff
    req,          \* per job: the request handler that submitted it
    w,            \* per job: the worker thread, its position and locals
    calls,        \* per job: the collaborator calls made for it and the
                  \* progress texts written to its record, in order
    poll,         \* per job: the last response of job_status
    chunked,      \* per upload id: the chunk requests sent
    audio         \* the files yt-dlp wrote to audio/, oldest ctime first

planVars == <<planIn, planMax, planOut, planDone, planStart>>
sweepVars == <<sweepIn, sweepOut, sweepDone>>
vars == <<planIn, planMax, planOut, planDone, planStart, sweepIn, sweepOut, sweepDone,
          env, active_jobs, disk, stale, req, w, calls, poll, chunked, audio>>

\* the locals of a worker thread before it runs
FreshWorker ==
    [ pc |-> "unstarted", kind |-> "none",
      openai_api_key |-> FALSE, send_email |-> FALSE,
      file_path |-> None, downloaded_file |-> None,
      chunks |-> << >>, i |-> 0, transcript_parts |-> << >>,
      temp_paths |-> << >>, temp_chunk_path |-> None,
      exc |-> None, transcript |-> None, analysis |-> None,
      email_result |-> None, result |-> None,
      ta |-> "not called", failed_in |-> "none", failed_chunk |-> 0,
      made |-> {}, jobs_dict |-> "active_jobs", input_exists |-> None,
      cleanup_failed |-> FALSE ]

\* A scenario fixes the inputs of a run: the job ids the clients are given,
\* the ids of the calls made to the service without the web application,
\* the upload ids they send chunks for, whether they poll, the texts the
\* transcription API returns, the durations ffprobe reports, and whether
\* the run lasts long enough for files to pass the retention age, and
\* whether the file-system calls of the sweep may fail.
Scenario(jobs, direct, uploads, polling, texts, durations, aging, failing) ==
    [jobs |-> jobs, direct |-> direct, uploads |-> uploads,
     polling |-> polling, texts |-> texts, durations |-> durations,
     aging |-> aging, failing |-> failing]

\* no client and no collaborator: the service is not run
NoScenario == Scenario({}, {}, {}, FALSE, {}, {}, FALSE, FALSE)

SvcInit(scenario) ==
    /\ env = scenario
    /\ active_jobs = [j \in {} |-> None]
    /\ disk = {}
    /\ stale = {}
    /\ req = [j \in JobIds |-> [pc |-> "idle", upload_id |-> None]]
    /\ w = [j \in JobIds |-> FreshWorker]
    /\ calls = [j \in JobIds |-> << >>]
    /\ poll = [j \in JobIds |-> [code |-> 0, body |-> None]]
    /\ chunked = [u \in UploadIds |-> 0]
    /\ audio = << >>


(***************************************************************************)
(* Job registry: the dict active_jobs                                      *)
(***************************************************************************)
\* the record a worker stores when it starts
NewRecord(progress) ==
    [status |-> "processing", progress |-> progress,
     result |-> None, error |-> None]

\* a registry assignment that replaces the whole dict by the new entry
StoreAlone(jobs_dict, j, record) == [k \in {j} |-> record]

\* active_jobs[job_id] = record
Store(jobs_dict, j, record) ==
    [k \in DOMAIN jobs_dict \cup {j} |->
        IF k = j THEN record ELSE jobs_dict[k]]

\* TranscriptionService.update_progress
update_progress(jobs_dict, j, progress) ==
    IF j \in DOMAIN jobs_dict
    THEN [jobs_dict EXCEPT ![j].progress = progress]
    ELSE jobs_dict

\* the guarded form used by transcribe_audio and download_from_url:
\* if jobs_dict and job_id: self.update_progress(...); given says whether
\* the caller passed a registry or left the default None
update_progress_if_given(given, jobs_dict, j, progress) ==
    IF given /\ DOMAIN jobs_dict # {}
    THEN update_progress(jobs_dict, j, progress)
    ELSE jobs_dict

\* TypeError of "job_id in jobs_dict" when jobs_dict is None
NoneNotIterable == <<"argument of type 'NoneType' is not iterable">>

\* a completion that stores the result but leaves the status as it was
CompletedUpdateNoStatus(record, result) ==
    [record EXCEPT !.progress = <<"Transcription completed">>,
                   !.result = Some(result)]

\* active_jobs[job_id].update({'status': 'completed', 'progress': ..., 'result': result})
CompletedUpdate(record, result) ==
    [record EXCEPT !.status = "completed",
                   !.progress = <<"Transcription completed">>,
                   !.result = Some(result)]

\* a failure that records the message but leaves the status as it was
ErrorUpdateNoStatus(record, message) ==
    [record EXCEPT !.error = Some(message)]

\* a failure that records the status but not the message
ErrorUpdateNoMessage(record, message) ==
    [record EXCEPT !.status = "error"]

\* active_jobs[job_id].update({'status': 'error', 'error': str(e)})
ErrorUpdate(record, message) ==
    [record EXCEPT !.status = "error", !.error = Some(message)]

(***************************************************************************)
(* Retention sweep: TranscriptionService.cleanup_old_files                 *)
(***************************************************************************)
\* the directories in the order the sweep visits them
SweptDirs == <<"uploads", "chunks", "audio">>

\* Entries the requests of a regular client never make. upload_chunk joins
\* the client's uploadId to the chunk folder unchecked: the id "." saves
\* chunk_0000 in chunks/ itself, and the id "../uploads/<u>" makes the
\* directory uploads/<u>.
StrayChunkFile == <<"chunks", "chunk_0000">>
StraySubdir(u) == <<"uploads", u>>

\* Path.is_dir() and Path.is_file() of an entry of a swept directory: the
\* directories are those upload_chunk makes, every other entry is a file
is_dir(p) == p[1] \in {"chunks", "uploads"} /\ p[2] \in UploadIds
is_file(p) == ~is_dir(p)

\* cutoff_time = datetime.now() - timedelta(hours=max_age_hours), in hours
Cutoff(now, max_age_hours) == now - max_age_hours

\* a comparison that also takes the entry whose mtime is the cutoff
OlderOrAt(st_mtime, cutoff_timestamp) == st_mtime <= cutoff_timestamp

\* file_path.stat().st_mtime < cutoff_timestamp
Older(st_mtime, cutoff_timestamp) == st_mtime < cutoff_timestamp

StaleIn(dir, d, st) == { p \in d \cap st : p[1] = dir }

\* a sweep that deletes files only and leaves every directory alone
KindSweptFilesOnly(dir, p) == is_file(p)

\* the kind of entry the loop over directory dir looks at: is_file() for
\* uploads and audio, is_dir() for chunks
KindSwept(dir, p) == IF dir = "chunks" THEN is_dir(p) ELSE is_file(p)

\* the entries of directory dir whose stat() the sweep calls
SweepStats(dir, d) == { p \in d : p[1] = dir /\ KindSwept(dir, p) }

\* the entries of directory dir the sweep deletes
SweepTargets(dir, d, st) == SweepStats(dir, d) \cap st

\* what the sweep has deleted when it comes to directory number k
TargetsBefore(k, d, st) ==
    UNION { SweepTargets(SweptDirs[m], d, st) : m \in 1..(k - 1) }

\* a sweep that leaves the audio directory out
SweepCompletedNoAudio(d, st) ==
    [disk |-> d \ TargetsBefore(Len(SweptDirs), d, st), error |-> None]

\* the sweep that meets no failure and prints "Auto-cleanup completed"
SweepCompleted(d, st) ==
    [disk |-> d \ TargetsBefore(Len(SweptDirs) + 1, d, st), error |-> None]

\* The sweeps a failure ends. The three loops are inside one try block:
\* when iterdir() of directory k, or the stat() or the deletion of one of
\* its entries raises, the directories before k have been swept, any of the
\* other entries of k may have been deleted (iterdir's order is arbitrary),
\* and nothing after is looked at.
SweepFailed(d, st) ==
    UNION { LET dir     == SweptDirs[k]
                before  == TargetsBefore(k, d, st)
                targets == SweepTargets(dir, d, st)
            IN  { [disk |-> d \ before, error |-> Some(<<"iterdir", <<dir>>>>)] }
                \cup UNION { { [disk |-> d \ (before \cup gone),
                                error |-> Some(<<"stat", p>>)] :
                               gone \in SUBSET (targets \ {p}) } :
                             p \in SweepStats(dir, d) }
                \cup UNION { { [disk |-> d \ (before \cup gone),
                                error |-> Some(<<"delete", p>>)] :
                               gone \in SUBSET (targets \ {p}) } :
                             p \in targets }
          : k \in 1..Len(SweptDirs) }

\* cleanup_old_files on the entries d of which st are older than the
\* cutoff; failing says whether file-system calls fail in the run
SweepOutcomes(d, st, failing) ==
    {SweepCompleted(d, st)} \cup (IF failing THEN SweepFailed(d, st) ELSE {})

\* a sweep without the try block: its failures reach the caller
SweepRaisesUncaught(error) == error # None

\* except Exception as e: print(f"Auto-cleanup error: {e}"): whether the
\* failure leaves cleanup_old_files
SweepRaises(error) == FALSE

\* what the log of a job says of a sweep
SweepEvent(caller, error) ==
    <<"sweep", caller, IF error = None THEN "ok" ELSE "error">>

\* the message of a failure of the sweep's file-system calls
SweepFailure == <<"[Errno 13] Permission denied: ", "path">>

\* the file at path p is written (again): it exists and its mtime is now
Written(p) ==
    /\ disk' = disk \cup {p}
    /\ stale' = stale \ {p}

\* the paths in gone are removed
Removed(gone) ==
    /\ disk' = disk \ gone
    /\ stale' = stale \ gone

Log(j, event) == calls' = [calls EXCEPT ![j] = Append(@, event)]

\* the log entry of a progress text that reached the job's record
ProgressEvent(progress) == <<"progress">> \o progress

\* update_progress called by process_file or transcribe_audio for job j:
\* the text is written, and logged, when a registry was passed and holds
\* the job id
LogProgress(j, given, progress) ==
    calls' = [calls EXCEPT ![j] =
                IF given /\ j \in DOMAIN active_jobs
                THEN Append(@, ProgressEvent(progress))
                ELSE @]

(***************************************************************************)
(* Request handlers of app.py                                              *)
(***************************************************************************)
\* upload_chunk: the chunk is saved into chunks/<upload_id>
upload_chunk(u) ==
    /\ u \in env.uploads
    /\ chunked[u] < MaxUploadChunks
    /\ chunked' = [chunked EXCEPT ![u] = @ + 1]
    /\ Written(ChunkDir(u))
    /\ UNCHANGED <<planVars, sweepVars, env, active_jobs, req, w, calls, poll, audio>>

\* cleanup_upload: the client gives a chunked upload up
cleanup_upload(u) ==
    /\ ChunkDir(u) \in disk
    /\ Removed({ChunkDir(u)})
    /\ UNCHANGED <<planVars, sweepVars, env, active_jobs, req, w, calls, poll, chunked, audio>>

\* the worker thread of job j as thread.start() leaves it
StartedWorker(kind, send_email, file_path) ==
    [FreshWorker EXCEPT !.pc = "w_begin", !.kind = kind,
                        !.openai_api_key = TRUE, !.send_email = send_email,
                        !.file_path = file_path]

\* upload_file up to thread.start(): the file is saved, the settings are
\* validated, the service is constructed (which sweeps), the thread starts
upload_file(j) ==
    /\ j \in env.jobs
    /\ req[j].pc = "idle"
    /\ \E openai_api_key \in BOOLEAN, send_email \in BOOLEAN :
         IF ~openai_api_key
         THEN /\ Written(UploadPath(j))
              /\ req' = [req EXCEPT ![j].pc = "rejected"]
              /\ UNCHANGED <<w, calls>>
         ELSE \E swept \in SweepOutcomes(disk \cup {UploadPath(j)},
                                           stale \ {UploadPath(j)},
                                           env.failing) :
                 /\ disk' = swept.disk
                 /\ stale' = (stale \ {UploadPath(j)}) \cap swept.disk
                 /\ Log(j, SweepEvent("init", swept.error))
                 /\ IF SweepRaises(swept.error)
                    THEN /\ req' = [req EXCEPT ![j].pc = "init500"]
                         /\ UNCHANGED w
                    ELSE /\ req' = [req EXCEPT ![j].pc = "started"]
                         /\ w' = [w EXCEPT ![j] =
                                    StartedWorker("upload", send_email,
                                                  Some(UploadPath(j)))]
    /\ UNCHANGED <<planVars, sweepVars, env, active_jobs, poll, chunked, audio>>

\* finalize_upload up to thread.start(): the settings are validated; an
\* upload directory that does not exist is answered 404 'Upload not found';
\* else the chunks are combined into uploads/, the directory is removed,
\* the service is constructed, the thread starts
finalize_upload(j, u) ==
    /\ j \in env.jobs
    /\ u \in env.uploads
    /\ req[j].pc = "idle"
    /\ IF ChunkDir(u) \notin disk
       THEN /\ req' = [req EXCEPT ![j] =
                         [pc |-> "notfound", upload_id |-> Some(u)]]
            /\ UNCHANGED <<disk, stale, w, calls>>
       ELSE \E send_email \in BOOLEAN :
              \E swept \in SweepOutcomes(
                               (disk \cup {UploadPath(j)}) \ {ChunkDir(u)},
                               stale \ {UploadPath(j), ChunkDir(u)},
                               env.failing) :
                 /\ disk' = swept.disk
                 /\ stale' = (stale \ {UploadPath(j), ChunkDir(u)})
                                 \cap swept.disk
                 /\ Log(j, SweepEvent("init", swept.error))
                 /\ IF SweepRaises(swept.error)
                    THEN /\ req' = [req EXCEPT ![j] =
                                      [pc |-> "init500", upload_id |-> Some(u)]]
                         /\ UNCHANGED w
                    ELSE /\ req' = [req EXCEPT ![j] =
                                      [pc |-> "started", upload_id |-> Some(u)]]
                         /\ w' = [w EXCEPT ![j] =
                                    StartedWorker("finalize", send_email,
                                                  Some(UploadPath(j)))]
    /\ UNCHANGED <<planVars, sweepVars, env, active_jobs, poll, chunked, audio>>

\* process_url up to thread.start()
process_url(j) ==
    /\ j \in env.jobs
    /\ req[j].pc = "idle"
    /\ \E openai_api_key \in BOOLEAN, send_email \in BOOLEAN :
         IF ~openai_api_key
         THEN /\ req' = [req EXCEPT ![j].pc = "rejected"]
              /\ UNCHANGED <<disk, stale, w, calls>>
         ELSE \E swept \in SweepOutcomes(disk, stale, env.failing) :
                 /\ disk' = swept.disk
                 /\ stale' = stale \cap swept.disk
                 /\ Log(j, SweepEvent("init", swept.error))
                 /\ IF SweepRaises(swept.error)
                    THEN /\ req' = [req EXCEPT ![j].pc = "init500"]
                         /\ UNCHANGED w
                    ELSE /\ req' = [req EXCEPT ![j].pc = "started"]
                         /\ w' = [w EXCEPT ![j] =
                                    StartedWorker("url", send_email, None)]
    /\ UNCHANGED <<planVars, sweepVars, env, active_jobs, poll, chunked, audio>>

\* A call of the service without the web application: the caller constructs
\* TranscriptionService(settings), which sweeps, and calls
\* process_file(file_path) on a file it wrote to uploads/, with the defaults
\* job_id=None, jobs_dict=None, or with a job id the registry does not hold
call_process_file(j) ==
    /\ j \in env.direct
    /\ req[j].pc = "idle"
    /\ \E jobs_dict \in {"None", "active_jobs"} :
         \E swept \in SweepOutcomes(disk \cup {UploadPath(j)},
                                    stale \ {UploadPath(j)}, env.failing) :
            /\ disk' = swept.disk
            /\ stale' = (stale \ {UploadPath(j)}) \cap swept.disk
            /\ Log(j, SweepEvent("init", swept.error))
            /\ IF SweepRaises(swept.error)
               THEN /\ req' = [req EXCEPT ![j].pc = "init500"]
                    /\ UNCHANGED w
               ELSE /\ req' = [req EXCEPT ![j].pc = "called"]
                    /\ w' = [w EXCEPT ![j] =
                               [FreshWorker EXCEPT
                                   !.pc = "pf_sweep", !.kind = "direct",
                                   !.openai_api_key = TRUE,
                                   !.file_path = Some(UploadPath(j)),
                                   !.jobs_dict = jobs_dict]]
    /\ UNCHANGED <<planVars, sweepVars, env, active_jobs, poll, chunked, audio>>

\* the handler's return jsonify({... 'job_id': job_id ...}); finalize_upload
\* formats total_size, which the request may have left out: the division
\* raises and the handler answers 500 without the job id
handler_return(j) ==
    /\ req[j].pc = "started"
    /\ \E total_size_given \in BOOLEAN :
         req' = [req EXCEPT ![j].pc =
                    IF w[j].kind = "finalize" /\ ~total_size_given
                    THEN "failed500" ELSE "returned"]
    /\ UNCHANGED <<planVars, sweepVars, env, active_jobs, disk, stale, w, calls, poll, chunked,
                   audio>>

\* job_status, polled by a client that was given the job id
job_status(j) ==
    /\ env.polling
    /\ req[j].pc = "returned"
    /\ poll' = [poll EXCEPT ![j] =
                  IF j \notin DOMAIN active_jobs
                  THEN [code |-> 404, body |-> None]
                  ELSE [code |-> 200, body |-> Some(active_jobs[j])]]
    /\ UNCHANGED <<planVars, sweepVars, env, active_jobs, disk, stale, req, w, calls, chunked,
                   audio>>

\* test_email constructs a TranscriptionService, which sweeps
test_email ==
    /\ \E swept \in SweepOutcomes(disk, stale, env.failing) :
          /\ disk' = swept.disk
          /\ stale' = stale \cap swept.disk
    /\ UNCHANGED <<planVars, sweepVars, env, active_jobs, req, w, calls, poll, chunked, audio>>

\* time passes: the mtime of an entry of a swept directory falls behind the
\* cutoff of the sweeps that follow
grow_old(p) ==
    /\ env.aging
    /\ p \in disk \ stale
    /\ p[1] \in {"uploads", "chunks", "audio"}
    /\ stale' = stale \cup {p}
    /\ UNCHANGED <<planVars, sweepVars, env, active_jobs, disk, req, w, calls, poll, chunked, audio>>


(***************************************************************************)
(* Worker threads: the closures process_file and process_url_task of       *)
(* app.py, and the service calls they make                                 *)
(***************************************************************************)
At(j, pc) == w[j].pc = pc

\* whether the worker's service calls carry a registry: the closures of
\* app.py pass active_jobs, a direct call leaves jobs_dict=None
Given(j) == w[j].jobs_dict = "active_jobs"

Goto(j, pc) == w' = [w EXCEPT ![j].pc = pc]

\* the exception e is raised and control passes to the handler at pc
Raise(j, e, pc) == w' = [w EXCEPT ![j].pc = pc, ![j].exc = Some(e)]

\* The first statements of the closure. The two file closures return when
\* the job is already recorded as processing; all store the record; the
\* upload and URL closures then check the API key of the captured settings.
worker_begin(j) ==
    /\ At(j, "w_begin")
    /\ IF /\ w[j].kind \in {"upload", "finalize"}
          /\ j \in DOMAIN active_jobs
          /\ active_jobs[j].status = "processing"
       THEN /\ Goto(j, "finished")
            /\ UNCHANGED active_jobs
       ELSE /\ active_jobs' =
                 Store(active_jobs, j,
                       NewRecord(IF w[j].kind = "url"
                                 THEN <<"Downloading from URL...">>
                                 ELSE <<"Starting transcription...">>))
            /\ IF w[j].kind \in {"upload", "url"} /\ ~w[j].openai_api_key
               THEN Raise(j, NoApiKey, "w_except")
               ELSE Goto(j, IF w[j].kind = "url" THEN "pu_download"
                                                ELSE "pf_sweep")
    /\ UNCHANGED <<planVars, sweepVars, env, disk, stale, req, calls, poll, chunked, audio>>

\* download_from_url up to the end of yt-dlp: the progress is written, the
\* tool runs and either fails or exits 0, with or without an mp3 written
download_from_url(j) ==
    /\ At(j, "pu_download")
    /\ active_jobs' = update_progress_if_given(Given(j), active_jobs, j,
                                               <<"Downloading from URL...">>)
    /\ Log(j, <<"download">>)
    /\ \/ /\ Written(AudioPath(j))
          /\ audio' = Append(audio, AudioPath(j))
          /\ Goto(j, "pu_glob")
       \/ /\ Goto(j, "pu_glob")
          /\ UNCHANGED <<disk, stale, audio>>
       \/ /\ \E e \in DownloadErrors :
                Raise(j, UrlProcessingFailed(e), "w_except")
          /\ UNCHANGED <<disk, stale, audio>>
    /\ UNCHANGED <<planVars, sweepVars, env, req, poll, chunked>>

\* the newest of the files in seq that exist: max(mp3_files, key=getctime)
Newest(seq, d) ==
    LET alive == { k \in 1..Len(seq) : seq[k] \in d }
    IN  seq[CHOOSE k \in alive : \A m \in alive : m <= k]

\* download_from_url after yt-dlp: glob audio/downloaded_*.mp3 and return
\* the newest file, whichever download wrote it
download_glob(j) ==
    /\ At(j, "pu_glob")
    /\ IF { p \in disk : p[1] = "audio" } = {}
       THEN Raise(j, UrlProcessingFailed(NoAudioDownloaded), "w_except")
       ELSE w' = [w EXCEPT ![j].pc = "pf_sweep",
                           ![j].downloaded_file = Some(Newest(audio, disk)),
                           ![j].file_path = Some(Newest(audio, disk))]
    /\ UNCHANGED <<planVars, sweepVars, env, active_jobs, disk, stale, req, calls, poll, chunked,
                   audio>>

\* a process_file that leaves the sweep to the constructor
pf_sweep_skipped(j) ==
    /\ At(j, "pf_sweep")
    /\ Goto(j, "pf_progress")
    /\ UNCHANGED <<planVars, sweepVars, env, active_jobs, disk, stale, req,
                   calls, poll, chunked, audio>>

\* process_file: cleanup_old_files(max_age_hours=24)
pf_sweep(j) ==
    /\ At(j, "pf_sweep")
    /\ \E swept \in SweepOutcomes(disk, stale, env.failing) :
          /\ disk' = swept.disk
          /\ stale' = stale \cap swept.disk
          /\ Log(j, SweepEvent("process_file", swept.error))
          /\ IF SweepRaises(swept.error)
             THEN Raise(j, ProcessingFailed(SweepFailure), "pf_finally")
             ELSE Goto(j, "pf_progress")
    /\ UNCHANGED <<planVars, sweepVars, env, active_jobs, req, poll, chunked, audio>>

\* process_file's calls self.update_progress(job_id, progress, jobs_dict),
\* which are not guarded: without a registry "job_id in jobs_dict" raises
\* TypeError, which process_file's except clause wraps
UnguardedProgress(j, progress, pc) ==
    IF Given(j)
    THEN /\ active_jobs' = update_progress(active_jobs, j, progress)
         /\ LogProgress(j, TRUE, progress)
         /\ Goto(j, pc)
    ELSE /\ Raise(j, ProcessingFailed(NoneNotIterable), "pf_finally")
         /\ UNCHANGED <<active_jobs, calls>>

\* process_file: update_progress(job_id, "Transcribing audio...", jobs_dict)
pf_progress_transcribing(j) ==
    /\ At(j, "pf_progress")
    /\ UnguardedProgress(j, <<"Transcribing audio...">>, "ta_begin")
    /\ UNCHANGED <<planVars, sweepVars, env, disk, stale, req, poll, chunked, audio>>

\* a driver that does not test the input path before it goes on
ta_begin_untested(j) ==
    /\ At(j, "ta_begin")
    /\ active_jobs' = update_progress_if_given(Given(j), active_jobs, j,
                                               <<"Starting transcription...">>)
    /\ LogProgress(j, Given(j), <<"Starting transcription...">>)
    /\ w' = [w EXCEPT ![j].pc = "ta_connect", ![j].ta = "running",
                      ![j].input_exists = Some(w[j].file_path[1] \in disk)]
    /\ UNCHANGED <<planVars, sweepVars, env, disk, stale, req, poll, chunked, audio>>

\* transcribe_audio: temp_paths = [], the first progress, the existence test
ta_begin(j) ==
    /\ At(j, "ta_begin")
    /\ active_jobs' = update_progress_if_given(Given(j), active_jobs, j,
                                               <<"Starting transcription...">>)
    /\ LogProgress(j, Given(j), <<"Starting transcription...">>)
    /\ LET exists == w[j].file_path[1] \in disk
       IN  IF ~exists
           THEN w' = [w EXCEPT ![j].pc = "ta_finally", ![j].ta = "running",
                               ![j].input_exists = Some(exists),
                               ![j].exc = Some(InputNotFound)]
           ELSE w' = [w EXCEPT ![j].pc = "ta_connect", ![j].ta = "running",
                               ![j].input_exists = Some(exists)]
    /\ UNCHANGED <<planVars, sweepVars, env, disk, stale, req, poll, chunked, audio>>

\* a driver that goes to the chunking pipeline without the connection test
ta_connect_skipped(j) ==
    /\ At(j, "ta_connect")
    /\ Goto(j, "ta_plan")
    /\ UNCHANGED <<planVars, sweepVars, env, active_jobs, disk, stale, req, calls, poll,
                   chunked, audio>>

\* transcribe_audio: get_client() and the connection test client.models.list()
ta_connect(j) ==
    /\ At(j, "ta_connect")
    /\ \/ /\ Log(j, <<"models.list", "ok">>)
          /\ Goto(j, "ta_plan")
       \/ /\ Log(j, <<"models.list", "failed">>)
          /\ Raise(j, ConnectFailed, "ta_finally")
    /\ UNCHANGED <<planVars, sweepVars, env, active_jobs, disk, stale, req, poll, chunked, audio>>

\* get_audio_duration when ffprobe exits 0 and prints a number: the number
\* is returned as it is, 0 included
get_audio_duration(printed) == printed

\* transcribe_audio: chunks = self.get_audio_chunks(input_path), which
\* probes the duration with ffprobe: it prints a duration, or the probe
\* fails (non-zero exit, no number printed, timeout); transcript_parts = []
ta_plan(j) ==
    /\ At(j, "ta_plan")
    /\ \/ \E duration \in env.durations :
            /\ Log(j, <<"probe", Str(duration)>>)
            /\ w' = [w EXCEPT ![j].pc = "ta_loop",
                              ![j].chunks =
                                  get_audio_chunks(get_audio_duration(duration),
                                                   DEFAULT_MAX_DURATION),
                              ![j].i = 0,
                              ![j].transcript_parts = << >>]
       \/ /\ Log(j, <<"probe", "failed">>)
          /\ Raise(j, ProbeFailed, "ta_finally")
    /\ UNCHANGED <<planVars, sweepVars, env, active_jobs, disk, stale, req, poll, chunked, audio>>

\* a loop that numbers the chunks from 0 in its progress text
ChunkProgressFromZero(i, n) == <<"Processing chunk ", Str(i), "/", Str(n), "...">>

\* the progress text of chunk i (0-based) of n
ChunkProgress(i, n) == <<"Processing chunk ", Str(i + 1), "/", Str(n), "...">>

\* transcribe_audio: the head of the for loop, which writes the chunk's
\* progress, and the return statement after the last chunk
ta_loop(j) ==
    /\ At(j, "ta_loop")
    /\ IF w[j].i < Len(w[j].chunks)
       THEN /\ active_jobs' =
                 update_progress_if_given(Given(j), active_jobs, j,
                     ChunkProgress(w[j].i, Len(w[j].chunks)))
            /\ LogProgress(j, Given(j),
                           ChunkProgress(w[j].i, Len(w[j].chunks)))
            /\ Goto(j, "ta_extract")
       ELSE /\ w' = [w EXCEPT ![j].pc = "ta_finally",
                              ![j].transcript =
                                  Some(Join(BlankLine, w[j].transcript_parts))]
            /\ UNCHANGED <<active_jobs, calls>>
    /\ UNCHANGED <<planVars, sweepVars, env, disk, stale, req, poll, chunked, audio>>


(***************************************************************************)
(* Chunk extractor: TranscriptionService.extract_audio_chunk               *)
(***************************************************************************)
\* How one run of ffmpeg on the mkstemp file can end:
\*   ok       exit 0, the file holds audio
\*   timeout  subprocess.TimeoutExpired
\*   failed   subprocess.CalledProcessError (non-zero exit)
\*   empty    exit 0, the file is zero-length
\*   missing  exit 0, the file is gone
\*   oserror  subprocess.run raises another exception (ffmpeg cannot be run)
ExtractOutcomes == {"ok", "timeout", "failed", "empty", "missing", "oserror"}

\* Whether the mkstemp file exists when extract_audio_chunk returns or
\* raises. The two except clauses (TimeoutExpired, CalledProcessError)
\* remove it; the RuntimeError of the empty-file test and any other
\* exception pass through no clause that removes it.
ExtractLeavesFile(outcome) ==
    CASE outcome = "ok"      -> TRUE
      [] outcome = "timeout" -> FALSE
      [] outcome = "failed"  -> FALSE
      [] outcome = "empty"   -> TRUE
      [] outcome = "missing" -> FALSE
      [] outcome = "oserror" -> TRUE

\* the message of the exception extract_audio_chunk raises
ExtractMessage(outcome) ==
    CASE outcome = "timeout" -> FfmpegTimedOut
      [] outcome = "failed"  -> FfmpegFailed
      [] outcome = "empty"   -> EmptyExtraction
      [] outcome = "missing" -> EmptyExtraction
      [] outcome = "oserror" -> FfmpegNotRun

(***************************************************************************)
(* Transcription driver: the loop body of transcribe_audio                 *)
(***************************************************************************)
\* the 1-based number of the chunk the worker is at, as the messages show it
ChunkNo(j) == w[j].i + 1

\* a driver that goes on with the next chunk when one fails
ChunkFailedSkips(r, inner, where) ==
    [r EXCEPT !.pc = "ta_loop", !.i = @ + 1,
              !.failed_in = where, !.failed_chunk = r.i + 1]

\* a driver that tries a failed chunk again
ChunkFailedRetries(r, inner, where) ==
    [r EXCEPT !.pc = IF where = "extract" THEN "ta_extract" ELSE "ta_upload"]

\* except Exception as e: raise RuntimeError(f"Failed to process audio
\* chunk {i+1}/{len(chunks)}: {e}"), which leaves the loop for the finally
ChunkFailed(r, inner, where) ==
    [r EXCEPT !.pc = "ta_finally",
              !.exc = Some(ChunkError(r.i, Len(r.chunks), inner)),
              !.failed_in = where, !.failed_chunk = r.i + 1]

\* temp_chunk_path = self.extract_audio_chunk(...); temp_paths.append(...)
ta_extract(j) ==
    /\ At(j, "ta_extract")
    /\ Log(j, <<"extract", Str(ChunkNo(j))>>)
    /\ \E outcome \in ExtractOutcomes :
         LET path == TempPath(j, ChunkNo(j))
             allocated == [w[j] EXCEPT !.made = @ \cup {path}]
         IN  /\ IF ExtractLeavesFile(outcome)
                THEN Written(path)
                ELSE UNCHANGED <<disk, stale>>
             /\ IF outcome = "ok"
                THEN w' = [w EXCEPT ![j] =
                             [allocated EXCEPT !.pc = "ta_upload",
                                          !.temp_chunk_path = Some(path),
                                          !.temp_paths = Append(@, path)]]
                ELSE w' = [w EXCEPT ![j] =
                             ChunkFailed(allocated, ExtractMessage(outcome),
                                         "extract")]
    /\ UNCHANGED <<planVars, sweepVars, env, active_jobs, req, poll, chunked, audio>>

\* transcript_parts.append(transcript.text)
AppendPart(parts, text) == Append(parts, text)

\* the chunk file is opened and sent to client.audio.transcriptions.create
ta_upload(j) ==
    /\ At(j, "ta_upload")
    /\ \/ \E text \in env.texts :
            /\ calls' = [calls EXCEPT ![j] =
                           @ \o << <<"upload", Str(ChunkNo(j))>>,
                                   <<"text", Str(ChunkNo(j)), text>> >>]
            /\ w' = [w EXCEPT ![j].pc = "ta_remove",
                              ![j].transcript_parts = AppendPart(@, text)]
       \/ /\ Log(j, <<"upload", Str(ChunkNo(j))>>)
          /\ w' = [w EXCEPT ![j] = ChunkFailed(w[j], UploadFailed, "upload")]
    /\ UNCHANGED <<planVars, sweepVars, env, active_jobs, disk, stale, req, poll, chunked, audio>>

\* a loop that leaves the removal of the chunk files to the finally
ta_remove_skipped(j) ==
    /\ At(j, "ta_remove")
    /\ w' = [w EXCEPT ![j].pc = "ta_loop", ![j].i = @ + 1]
    /\ UNCHANGED <<planVars, sweepVars, env, active_jobs, disk, stale, req,
                   calls, poll, chunked, audio>>

\* if temp_chunk_path and os.path.exists(temp_chunk_path): os.remove(...)
ta_remove(j) ==
    /\ At(j, "ta_remove")
    /\ Removed({w[j].temp_chunk_path[1]})
    /\ w' = [w EXCEPT ![j].pc = "ta_loop", ![j].i = @ + 1]
    /\ UNCHANGED <<planVars, sweepVars, env, active_jobs, req, calls, poll, chunked, audio>>

Range(seq) == { seq[k] : k \in 1..Len(seq) }

\* transcribe_audio's finally: every path of temp_paths that exists is
\* removed; then the transcript is returned, or the exception goes on to
\* process_file's except clause, which wraps it
ta_finally(j) ==
    /\ At(j, "ta_finally")
    /\ Removed(Range(w[j].temp_paths))
    /\ IF w[j].exc = None
       THEN w' = [w EXCEPT ![j].pc = "pf_progress_analysis",
                           ![j].ta = "returned"]
       ELSE w' = [w EXCEPT ![j].pc = "pf_finally", ![j].ta = "raised",
                           ![j].exc = Some(ProcessingFailed(@[1]))]
    /\ UNCHANGED <<planVars, sweepVars, env, active_jobs, req, calls, poll, chunked, audio>>


(***************************************************************************)
(* Service pipeline: process_file and process_url after the transcription  *)
(***************************************************************************)
\* process_file: update_progress(job_id, "Creating financial analysis...")
pf_progress_analysis(j) ==
    /\ At(j, "pf_progress_analysis")
    /\ UnguardedProgress(j, <<"Creating financial analysis...">>, "pf_analysis")
    /\ UNCHANGED <<planVars, sweepVars, env, disk, stale, req, poll, chunked, audio>>

\* the dict process_file returns
ResultOf(r, email_result) ==
    [transcript |-> r.transcript[1], analysis |-> r.analysis[1],
     email_result |-> email_result]

\* a process_file that sends the email report whatever the settings say
pf_analysis_emails_always(j) ==
    /\ At(j, "pf_analysis")
    /\ Log(j, <<"analysis">>)
    /\ \/ w' = [w EXCEPT ![j].analysis = Some("analysis"),
                         ![j].pc = "pf_progress_email"]
       \/ Raise(j, ProcessingFailed(AnalysisFailed), "pf_finally")
    /\ UNCHANGED <<planVars, sweepVars, env, active_jobs, disk, stale, req, poll, chunked, audio>>

\* process_file: create_financial_summary(transcript); without send_email
\* the result is built right after it
pf_analysis(j) ==
    /\ At(j, "pf_analysis")
    /\ Log(j, <<"analysis">>)
    /\ \/ LET r == [w[j] EXCEPT !.analysis = Some("analysis")]
          IN  w' = [w EXCEPT ![j] =
                      IF r.send_email
                      THEN [r EXCEPT !.pc = "pf_progress_email"]
                      ELSE [r EXCEPT !.pc = "pf_finally",
                                     !.result = Some(ResultOf(r, None))]]
       \/ Raise(j, ProcessingFailed(AnalysisFailed), "pf_finally")
    /\ UNCHANGED <<planVars, sweepVars, env, active_jobs, disk, stale, req, poll, chunked, audio>>

\* process_file: update_progress(job_id, "Sending email report...")
pf_progress_email(j) ==
    /\ At(j, "pf_progress_email")
    /\ UnguardedProgress(j, <<"Sending email report...">>, "pf_email")
    /\ UNCHANGED <<planVars, sweepVars, env, disk, stale, req, poll, chunked, audio>>

\* process_file: send_email_report, which returns a dict and never raises
pf_email(j) ==
    /\ At(j, "pf_email")
    /\ Log(j, <<"email">>)
    /\ \E success \in BOOLEAN :
         LET email_result == Some([success |-> success])
         IN  w' = [w EXCEPT ![j].pc = "pf_finally",
                            ![j].email_result = email_result,
                            ![j].result = Some(ResultOf(w[j], email_result))]
    /\ UNCHANGED <<planVars, sweepVars, env, active_jobs, disk, stale, req, poll, chunked, audio>>

\* cleanup_file_after_processing: os.remove inside try/except; a removal
\* that fails is printed and the file stays
CleanupFile(path) ==
    \/ Removed({path})
    \/ UNCHANGED <<disk, stale>>

\* a cleanup_file_after_processing without the try block: a removal that
\* fails raises out of process_file's finally in place of its outcome
CleanupRaised(r, failed) ==
    IF failed
    THEN [r EXCEPT !.cleanup_failed = TRUE,
                   !.exc = Some(<<"[Errno 13] Permission denied: ",
                                  "file_path">>),
                   !.result = None]
    ELSE r

\* cleanup_file_after_processing: except Exception as e: print(f"Failed to
\* cleanup file {file_path}: {e}"); the failure is printed and goes no
\* further
CleanupSwallowed(r, failed) == [r EXCEPT !.cleanup_failed = failed]

\* process_file's finally: if file_path and os.path.exists(file_path):
\* self.cleanup_file_after_processing(file_path), whose os.remove removes
\* the file or fails; then process_file's return or the propagation of its
\* RuntimeError to the caller (process_url or the worker closure)
pf_finally(j) ==
    /\ At(j, "pf_finally")
    /\ LET path == w[j].file_path[1]
       IN  \E failed \in (IF path \in disk THEN BOOLEAN ELSE {FALSE}) :
              /\ IF path \in disk /\ ~failed
                 THEN Removed({path})
                 ELSE UNCHANGED <<disk, stale>>
              /\ LET r == CleanupSwallowed(w[j], failed)
                 IN  w' = [w EXCEPT ![j] =
                             [r EXCEPT !.pc =
                                 IF r.kind = "url" THEN "pu_finally"
                                 ELSE IF r.kind = "direct" THEN "caller"
                                 ELSE IF r.exc = None THEN "w_complete"
                                 ELSE "w_except"]]
    /\ UNCHANGED <<planVars, sweepVars, env, active_jobs, req, calls, poll, chunked, audio>>

\* process_url's finally, then its return or its except clause, which wraps
\* the exception again
pu_finally(j) ==
    /\ At(j, "pu_finally")
    /\ CleanupFile(w[j].downloaded_file[1])
    /\ IF w[j].exc = None
       THEN Goto(j, "w_complete")
       ELSE w' = [w EXCEPT ![j].pc = "w_except",
                           ![j].exc = Some(UrlProcessingFailed(@[1]))]
    /\ UNCHANGED <<planVars, sweepVars, env, active_jobs, req, calls, poll, chunked, audio>>

\* the closure stores the result; the file closures go on to remove the
\* uploaded file
worker_complete(j) ==
    /\ At(j, "w_complete")
    /\ IF j \in DOMAIN active_jobs
       THEN /\ active_jobs' =
                 [active_jobs EXCEPT ![j] = CompletedUpdate(@, w[j].result[1])]
            /\ Goto(j, IF w[j].kind = "url" THEN "finished" ELSE "w_remove")
       ELSE /\ Raise(j, <<"KeyError: ", j>>, "w_except")
            /\ UNCHANGED active_jobs
    /\ UNCHANGED <<planVars, sweepVars, env, disk, stale, req, calls, poll, chunked, audio>>

\* a closure whose removal of the uploaded file is not guarded
RemoveRaisedUnguarded(r) ==
    [r EXCEPT !.pc = "w_except",
              !.exc = Some(<<"[Errno 2] No such file or directory: ", "file_path">>)]

\* try: os.remove(file_path) / except: pass, when os.remove raises
RemoveRaised(r) == [r EXCEPT !.pc = "finished"]

\* the closure's removal of the uploaded file after completion
worker_remove(j) ==
    /\ At(j, "w_remove")
    /\ IF w[j].file_path[1] \in disk
       THEN \/ /\ Removed({w[j].file_path[1]})
               /\ Goto(j, "finished")
            \/ /\ w' = [w EXCEPT ![j] = RemoveRaised(w[j])]
               /\ UNCHANGED <<disk, stale>>
       ELSE /\ w' = [w EXCEPT ![j] = RemoveRaised(w[j])]
            /\ UNCHANGED <<disk, stale>>
    /\ UNCHANGED <<planVars, sweepVars, env, active_jobs, req, calls, poll, chunked, audio>>

\* except Exception as e: active_jobs[job_id].update({'status': 'error',
\* 'error': str(e)}); without a record the update raises KeyError, which
\* leaves the thread
WorkerExcept(j) ==
    /\ At(j, "w_except")
    /\ IF j \in DOMAIN active_jobs
       THEN /\ active_jobs' =
                 [active_jobs EXCEPT ![j] = ErrorUpdate(@, w[j].exc[1])]
            /\ Goto(j, "finished")
       ELSE /\ Goto(j, "escaped")
            /\ UNCHANGED active_jobs

worker_except(j) ==
    /\ WorkerExcept(j)
    /\ UNCHANGED <<planVars, sweepVars, env, disk, stale, req, calls, poll, chunked, audio>>

(***************************************************************************)
(* The planner called once on a probed duration                            *)
(***************************************************************************)
PlanIdle == /\ planIn = 0
            /\ planMax = DEFAULT_MAX_DURATION
            /\ planOut = << >>
            /\ planDone = FALSE
            /\ planStart = 0

\* a call that leaves max_duration at its default, as transcribe_audio's
PlanInit == /\ planIn \in 0..MaxPlanTicks
            /\ planMax = DEFAULT_MAX_DURATION
            /\ planOut = << >>
            /\ planDone = FALSE
            /\ planStart = 0

\* the values a caller passes for max_duration: half the default, the
\* default, and one and a half times the default
PlanMaxima == { Seconds(300), DEFAULT_MAX_DURATION, Seconds(900) }

\* a call that passes max_duration
PlanInitAny == /\ planIn \in 0..MaxPlanTicks
               /\ planMax \in PlanMaxima
               /\ planOut = << >>
               /\ planDone = FALSE
               /\ planStart = 0

\* one call of the planner
PlanApply ==
    /\ ~planDone
    /\ planOut' = get_audio_chunks(planIn, planMax)
    /\ planDone' = TRUE
    /\ UNCHANGED <<planIn, planMax, planStart, sweepVars, env, active_jobs, disk, stale,
                   req, w, calls, poll, chunked, audio>>

\* get_audio_chunks past its single-window return: chunks = [], start = 0,
\* overlap = 10, for each probed duration above 600 s
PlanLoopInit == /\ planIn \in (Seconds(600) + 1)..MaxPlanTicks
                /\ planMax = DEFAULT_MAX_DURATION
                /\ planOut = << >>
                /\ planDone = FALSE
                /\ planStart = 0

\* one test of "while start < duration" and, when it holds, one run of the
\* loop's body: the window is appended, then the loop breaks or start
\* advances; the loop left, get_audio_chunks returns chunks
while_step ==
    /\ ~planDone
    /\ IF ~(planStart < planIn)
       THEN /\ planDone' = TRUE
            /\ UNCHANGED <<planOut, planStart>>
       ELSE LET remaining      == planIn - planStart
                chunk_duration == ChunkDuration(remaining, planMax)
            IN  /\ planOut' = Append(planOut, <<planStart, chunk_duration>>)
                /\ IF planStart + chunk_duration >= planIn
                   THEN /\ planDone' = TRUE
                        /\ UNCHANGED planStart
                   ELSE /\ planStart' = NextStart(planStart, planMax)
                        /\ UNCHANGED planDone
    /\ UNCHANGED <<planIn, planMax, sweepVars, env, active_jobs, disk, stale, req, w,
                   calls, poll, chunked, audio>>

(***************************************************************************)
(* The sweep called once on the entries of the three directories           *)
(***************************************************************************)
\* what the swept directories may hold: two uploaded files, a chunk
\* directory, a download, and the two stray entries
SweepEntries ==
    { UploadPath("j1"), UploadPath("j2"), ChunkDir("u1"), AudioPath("j1"),
      StrayChunkFile, StraySubdir("u1") }

\* the ages of the entries, in hours before the sweep
AgesHours == {1, 24, 25}

\* the values of max_age_hours: the 24 of every call site, and 1
MaxAges == {1, 24}

SweepIdle == /\ sweepIn = [now |-> 0, age |-> << >>, max_age_hours |-> 0]
             /\ sweepOut = [disk |-> {}, error |-> None]
             /\ sweepDone = FALSE

SweepInit ==
    /\ \E present \in SUBSET SweepEntries :
          \E age \in [present -> AgesHours], max_age_hours \in MaxAges :
             sweepIn = [now |-> 25, age |-> age,
                        max_age_hours |-> max_age_hours]
    /\ sweepOut = [disk |-> {}, error |-> None]
    /\ sweepDone = FALSE

\* st_mtime of the entry p of the listing
Mtime(p) == sweepIn.now - sweepIn.age[p]

\* one call of cleanup_old_files(max_age_hours) on the listing
SweepApply ==
    /\ ~sweepDone
    /\ LET d  == DOMAIN sweepIn.age
           st == { p \in d : Older(Mtime(p), Cutoff(sweepIn.now,
                                                     sweepIn.max_age_hours)) }
       IN  sweepOut' \in SweepOutcomes(d, st, TRUE)
    /\ sweepDone' = TRUE
    /\ UNCHANGED <<planVars, sweepIn, env, active_jobs, disk, stale, req, w,
                   calls, poll, chunked, audio>>

(***************************************************************************)
(* Specifications                                                          *)
(***************************************************************************)
\* The runs of the service specification: one client job in each;
\* the pipeline with every text and every probed duration; the registry
\* under polling; the working directories under ageing and failing
\* sweeps; the service called without the web application
Scenarios ==
    { Scenario({"j1"}, {}, UploadIds, FALSE, Texts, ProbeDurations, FALSE,
               FALSE),
      Scenario({"j1"}, {}, UploadIds, TRUE, {<<"H", "i">>}, {DurationWith(1)},
               FALSE, FALSE),
      Scenario({"j1"}, {}, UploadIds, FALSE, {<<"H", "i">>}, {DurationWith(0)},
               TRUE, TRUE),
      Scenario({}, {"j1"}, {}, FALSE, {<<"H", "i">>}, {DurationWith(1)}, FALSE,
               FALSE) }

Init == /\ PlanIdle
        /\ SweepIdle
        /\ \E scenario \in Scenarios : SvcInit(scenario)

Next ==
    \/ \E j \in JobIds : upload_file(j)
    \/ \E j \in JobIds, u \in UploadIds : finalize_upload(j, u)
    \/ \E j \in JobIds : process_url(j)
    \/ \E j \in JobIds : call_process_file(j)
    \/ \E j \in JobIds : handler_return(j)
    \/ \E j \in JobIds : job_status(j)
    \/ \E u \in UploadIds : upload_chunk(u)
    \/ \E u \in UploadIds : cleanup_upload(u)
    \/ test_email
    \/ \E p \in disk : grow_old(p)
    \/ \E j \in JobIds : worker_begin(j)
    \/ \E j \in JobIds : download_from_url(j)
    \/ \E j \in JobIds : download_glob(j)
    \/ \E j \in JobIds : pf_sweep(j)
    \/ \E j \in JobIds : pf_progress_transcribing(j)
    \/ \E j \in JobIds : ta_begin(j)
    \/ \E j \in JobIds : ta_connect(j)
    \/ \E j \in JobIds : ta_plan(j)
    \/ \E j \in JobIds : ta_loop(j)
    \/ \E j \in JobIds : ta_extract(j)
    \/ \E j \in JobIds : ta_upload(j)
    \/ \E j \in JobIds : ta_remove(j)
    \/ \E j \in JobIds : ta_finally(j)
    \/ \E j \in JobIds : pf_progress_analysis(j)
    \/ \E j \in JobIds : pf_analysis(j)
    \/ \E j \in JobIds : pf_progress_email(j)
    \/ \E j \in JobIds : pf_email(j)
    \/ \E j \in JobIds : pf_finally(j)
    \/ \E j \in JobIds : pu_finally(j)
    \/ \E j \in JobIds : worker_complete(j)
    \/ \E j \in JobIds : worker_remove(j)
    \/ \E j \in JobIds : worker_except(j)

Spec == Init /\ [][Next]_vars

\* the steps of the thread that runs job j: the closure of app.py, or the
\* caller of a direct call, and the service calls it makes
WorkerNext(j) ==
    \/ worker_begin(j)
    \/ download_from_url(j)
    \/ download_glob(j)
    \/ pf_sweep(j)
    \/ pf_progress_transcribing(j)
    \/ ta_begin(j)
    \/ ta_connect(j)
    \/ ta_plan(j)
    \/ ta_loop(j)
    \/ ta_extract(j)
    \/ ta_upload(j)
    \/ ta_remove(j)
    \/ ta_finally(j)
    \/ pf_progress_analysis(j)
    \/ pf_analysis(j)
    \/ pf_progress_email(j)
    \/ pf_email(j)
    \/ pf_finally(j)
    \/ pu_finally(j)
    \/ worker_complete(j)
    \/ worker_remove(j)
    \/ worker_except(j)

\* A started thread is scheduled again and again, and each external call
\* it makes returns or raises: the thread's next step is taken
Fairness == \A j \in JobIds : WF_vars(WorkerNext(j))

\* The service under fair scheduling, in the runs with one text and one
\* probed duration
LiveScenarios == { scenario \in Scenarios : scenario.texts = {<<"H", "i">>} }

InitLive == /\ PlanIdle
            /\ SweepIdle
            /\ \E scenario \in LiveScenarios : SvcInit(scenario)

SpecLive == InitLive /\ [][Next]_vars /\ Fairness

\* The service in the runs where every chunk's text is the same: the runs
\* of LiveScenarios and an upload of 1..MaxChunks windows
RunScenarios ==
    LiveScenarios
        \cup { Scenario({"j1"}, {}, {}, FALSE, {<<"H", "i">>}, ProbeDurations,
                        FALSE, FALSE) }

InitRun == /\ PlanIdle
           /\ SweepIdle
           /\ \E scenario \in RunScenarios : SvcInit(scenario)

SpecRun == InitRun /\ [][Next]_vars

\* Two jobs submitted at once: both workers run the whole pipeline of a
\* one-window file, or both are polled while the probe of each fails, or
\* one of them belongs to a chunked upload whose directory grows old
PairScenarios ==
    { Scenario(JobIds, {}, {}, FALSE, {<<"H", "i">>}, {DurationWith(0)},
               FALSE, FALSE),
      Scenario(JobIds, {}, {}, TRUE, {<<"H", "i">>}, {}, FALSE, FALSE),
      Scenario(JobIds, {}, UploadIds, FALSE, {<<"H", "i">>}, {}, TRUE,
               FALSE) }

InitPair == /\ PlanIdle
            /\ SweepIdle
            /\ \E scenario \in PairScenarios : SvcInit(scenario)

\* the upload handlers, the status poll, the passing of time and the
\* threads of the two jobs
NextPair ==
    \/ \E j \in JobIds : upload_file(j)
    \/ \E u \in UploadIds : upload_chunk(u)
    \/ \E j \in JobIds, u \in UploadIds : finalize_upload(j, u)
    \/ \E p \in disk : grow_old(p)
    \/ \E j \in JobIds : handler_return(j)
    \/ \E j \in JobIds : job_status(j)
    \/ \E j \in JobIds : worker_begin(j)
    \/ \E j \in JobIds : pf_sweep(j)
    \/ \E j \in JobIds : pf_progress_transcribing(j)
    \/ \E j \in JobIds : ta_begin(j)
    \/ \E j \in JobIds : ta_connect(j)
    \/ \E j \in JobIds : ta_plan(j)
    \/ \E j \in JobIds : ta_loop(j)
    \/ \E j \in JobIds : ta_extract(j)
    \/ \E j \in JobIds : ta_upload(j)
    \/ \E j \in JobIds : ta_remove(j)
    \/ \E j \in JobIds : ta_finally(j)
    \/ \E j \in JobIds : pf_progress_analysis(j)
    \/ \E j \in JobIds : pf_analysis(j)
    \/ \E j \in JobIds : pf_progress_email(j)
    \/ \E j \in JobIds : pf_email(j)
    \/ \E j \in JobIds : pf_finally(j)
    \/ \E j \in JobIds : worker_complete(j)
    \/ \E j \in JobIds : worker_remove(j)
    \/ \E j \in JobIds : worker_except(j)

SpecPair == InitPair /\ [][NextPair]_vars

\* The planner alone: one call for each duration up to MaxPlanTicks
InitPlan == /\ PlanInit
            /\ SweepIdle
            /\ SvcInit(NoScenario)

NextPlan == PlanApply

SpecPlan == InitPlan /\ [][NextPlan]_vars

\* The planner alone, called with each max_duration of PlanMaxima
InitPlanAny == /\ PlanInitAny
               /\ SweepIdle
               /\ SvcInit(NoScenario)

SpecPlanAny == InitPlanAny /\ [][NextPlan]_vars

\* The planner's loop step by step: the thread that runs it goes on to its
\* next statement as long as there is one
InitLoop == /\ PlanLoopInit
            /\ SweepIdle
            /\ SvcInit(NoScenario)

NextLoop == while_step

SpecLoop == InitLoop /\ [][NextLoop]_vars /\ WF_vars(while_step)

\* The sweep alone: one call for each listing of SweepEntries
InitSweep == /\ PlanIdle
             /\ SweepInit
             /\ SvcInit(NoScenario)

NextSweep == SweepApply

SpecSweep == InitSweep /\ [][NextSweep]_vars


(***************************************************************************)
(* Properties                                                              *)
(***************************************************************************)
Terminal == {"completed", "error"}

\* the temporary chunk files of job j's transcribe_audio call that exist
TempFilesLeft(j) == w[j].made \cap disk

\* C1: when transcribe_audio has exited, by returning or by raising, none
\* of the temporary chunk files created during the call is left on disk.
C1_NoTempFileAfterTranscribe ==
    \A j \in JobIds :
        w[j].ta \in {"returned", "raised"} => TempFilesLeft(j) = {}

\* C2: when extract_audio_chunk fails, the temp file it allocated is
\* deleted before the error reaches the caller.
C2_ExtractFailureLeavesNoFile ==
    \A j \in JobIds :
        w[j].failed_in = "extract"
            => TempPath(j, w[j].failed_chunk) \notin disk

\* C3: for every probed duration d with 0 < d <= 600 s the planner returns
\* exactly one window, starting at 0 and d + 0.5 s long.
C3_SingleWindow ==
    (planDone /\ 0 < planIn /\ planIn <= Seconds(600))
        => /\ Len(planOut) = 1
           /\ WindowStart(planOut[1]) = 0
           /\ WindowLength(planOut[1]) = planIn + HalfSecondPad

C3_Witness ==
    planDone /\ planIn = Seconds(600) /\ Len(planOut) = 1

\* C4: for every duration d > 600 s the windows are contiguous-covering:
\* the first starts at 0, no window starts after the end of the one before
\* it, and the last window ends at or after d.
C4_ContiguousCover ==
    (planDone /\ planIn > Seconds(600))
        => /\ Len(planOut) >= 1
           /\ WindowStart(planOut[1]) = 0
           /\ \A k \in 1..(Len(planOut) - 1) :
                 WindowEnd(planOut[k]) >= WindowStart(planOut[k + 1])
           /\ WindowEnd(planOut[Len(planOut)]) >= planIn

C4_Witness ==
    planDone /\ planIn > Seconds(600) /\ Len(planOut) >= 3

\* C5 as stated: for duration 1205 s the planner returns exactly the two
\* windows (0, 600) and (590, 625.5).
C5_TwoWindows ==
    (planDone /\ planIn = Seconds(1205))
        => planOut = << <<0, Seconds(600)>>,
                        <<Seconds(590), Seconds(625) + HalfSecondPad>> >>

\* C5 as amended: for duration 1205 s the planner returns exactly the three
\* windows (0, 600), (590, 600) and (1180, 25.5): at start 590 the remaining
\* 615 s exceed maxChunkLen + overlap, so only the third window is the tail.
C5_ThreeWindows ==
    (planDone /\ planIn = Seconds(1205))
        => planOut = << <<0, Seconds(600)>>,
                        <<Seconds(590), Seconds(600)>>,
                        <<Seconds(1180), Seconds(25) + HalfSecondPad>> >>

C5_Witness ==
    planDone /\ planIn = Seconds(1205) /\ Len(planOut) = 3

\* whether the message names chunk n of total as "n/total"
NamesChunk(message, n, total) ==
    \E k \in 1..(Len(message) - 2) :
        /\ message[k] = Str(n)
        /\ message[k + 1] = "/"
        /\ message[k + 2] = Str(total)

\* the chunk numbers job j's run called the extractor or the API for
ChunksTouched(j) ==
    { e[2] : e \in { c \in Range(calls[j]) : c[1] \in {"extract", "upload"} } }

\* C6: when processing of chunk i of N fails, in extraction or in upload,
\* transcribe_audio raises an error naming the chunk "i/N", no transcript
\* is returned, and no chunk after i is extracted or uploaded.
C6_ChunkFailureAborts ==
    \A j \in JobIds :
        w[j].failed_in # "none" =>
            /\ w[j].exc # None
            /\ NamesChunk(w[j].exc[1], w[j].failed_chunk, Len(w[j].chunks))
            /\ w[j].pc \notin {"ta_loop", "ta_extract", "ta_upload", "ta_remove"}
            /\ w[j].transcript = None
            /\ w[j].result = None
            /\ j \in DOMAIN active_jobs => active_jobs[j].result = None
            /\ ChunksTouched(j) \subseteq
                   { Str(n) : n \in 1..w[j].failed_chunk }

C6_Witness ==
    \E j \in JobIds :
        /\ w[j].failed_in = "upload"
        /\ w[j].failed_chunk = 2
        /\ Len(w[j].chunks) = 3
        /\ w[j].pc = "finished"

\* the text the transcription API returned for chunk n of job j's run
TextOf(j, n) ==
    LET e == CHOOSE c \in Range(calls[j]) : c[1] = "text" /\ c[2] = Str(n)
    IN  e[3]

RECURSIVE PartOffset(_, _)
\* where the text of chunk n starts in a transcript whose parts are each
\* followed by a two-character separator
PartOffset(j, n) ==
    IF n = 1 THEN 0
    ELSE PartOffset(j, n - 1) + Len(TextOf(j, n - 1)) + 2

\* C7: when all N chunks succeed, the transcript is the texts of chunks
\* 1..N in window order with exactly "\n\n" between consecutive texts and
\* nothing before the first or after the last.
C7_TranscriptIsJoin ==
    \A j \in JobIds :
        w[j].ta = "returned" =>
            LET total == Len(w[j].chunks)
                text  == w[j].transcript[1]
            IN  /\ w[j].transcript # None
                /\ Len(text) = PartOffset(j, total + 1) - 2
                /\ \A n \in 1..total :
                      SubSeq(text, PartOffset(j, n) + 1,
                             PartOffset(j, n) + Len(TextOf(j, n)))
                          = TextOf(j, n)
                /\ \A n \in 2..total :
                      /\ text[PartOffset(j, n) - 1] = "\n"
                      /\ text[PartOffset(j, n)] = "\n"

C7_Witness ==
    \E j \in JobIds :
        /\ w[j].ta = "returned"
        /\ Len(w[j].chunks) = 3
        /\ w[j].transcript = Some(<<"H", "i", "\n", "\n", "\n", "\n", "H", "i">>)

\* C8: a job's record becomes terminal exactly once: its status leaves
\* processing for completed or error, the worker that ends has made it
\* terminal, and from then on no step changes the record or leaves the
\* worker at a statement that writes it.
C8_TerminalOnce ==
    [][ \A j \in DOMAIN active_jobs :
          /\ j \in DOMAIN active_jobs'
          /\ active_jobs[j].status = "processing"
                => active_jobs'[j].status \in {"processing"} \cup Terminal
          /\ active_jobs[j].status \in Terminal
                => /\ active_jobs'[j] = active_jobs[j]
                   /\ w'[j].pc \in {"w_remove", "finished"}
          /\ w'[j].pc = "finished"
                => active_jobs'[j].status \in Terminal ]_vars

C8_Witness ==
    \E j \in JobIds :
        /\ w[j].pc = "finished"
        /\ w[j].kind = "upload"
        /\ j \in DOMAIN active_jobs
        /\ active_jobs[j].status = "completed"

\* C9: a status poll for a job id that a submission endpoint has returned
\* always finds a record and never reports 'Job not found'.
C9_PollFindsRecord ==
    \A j \in JobIds : poll[j].code # 404

\* C10: the worker closure catches every exception of process_file or
\* process_url and records it: the status becomes error, the error field
\* is the exception's message, and no exception leaves the worker thread.
C10_ExceptionRecorded ==
    \A j \in JobIds :
        /\ w[j].pc # "escaped"
        /\ (w[j].pc = "finished" /\ w[j].exc # None) =>
              /\ j \in DOMAIN active_jobs
              /\ active_jobs[j].status = "error"
              /\ active_jobs[j].error = Some(w[j].exc[1])
              /\ Head(w[j].exc[1]) =
                    IF w[j].kind = "url" THEN "URL processing failed: "
                                         ELSE "Processing failed: "

C10_Witness ==
    \E j \in JobIds :
        /\ w[j].pc = "finished"
        /\ w[j].kind = "url"
        /\ w[j].ta = "raised"
        /\ j \in DOMAIN active_jobs
        /\ active_jobs[j].status = "error"

(***************************************************************************)
(* Properties of the retention sweep                                       *)
(***************************************************************************)
\* the entries of the listing, and those the sweep left
Listed == DOMAIN sweepIn.age
Kept == sweepOut.disk

\* the entries a sweep of the three directories is to delete: the regular
\* files of uploads and audio and the subdirectories of chunks whose age
\* exceeds max_age_hours
Due ==
    { p \in Listed :
        /\ sweepIn.age[p] > sweepIn.max_age_hours
        /\ \/ p[1] \in {"uploads", "audio"} /\ is_file(p)
           \/ p[1] = "chunks" /\ is_dir(p) }

\* C11: the sweep with max_age_hours = h never deletes an entry whose
\* modification time is not older than now - h: every entry at most h hours
\* old before the sweep exists after it.
C11_YoungEntriesKept ==
    sweepDone =>
        \A p \in Listed :
            sweepIn.age[p] <= sweepIn.max_age_hours => p \in Kept

C11_Witness ==
    /\ sweepDone
    /\ sweepIn.max_age_hours = 24
    /\ UploadPath("j1") \in Listed /\ sweepIn.age[UploadPath("j1")] = 24
    /\ UploadPath("j2") \in Listed /\ sweepIn.age[UploadPath("j2")] = 25
    /\ UploadPath("j1") \in Kept
    /\ UploadPath("j2") \notin Kept

\* whether the sweep ended because a deletion (unlink or rmtree) failed
DeletionFailed == sweepOut.error # None /\ sweepOut.error[1][1] = "delete"

\* C12 as stated: after a sweep with maxAgeHours = 24 in which no deletion
\* fails, every file or subdirectory of uploads, chunks and audio that is
\* older than 24 hours has been deleted.
C12_EveryOldEntryDeleted ==
    (sweepDone /\ sweepIn.max_age_hours = 24 /\ ~DeletionFailed) =>
        \A p \in Listed : sweepIn.age[p] > 24 => p \notin Kept

\* C12 as amended: after a sweep with maxAgeHours = 24 that meets no
\* failure, the entries deleted are exactly the regular files of uploads
\* and audio and the subdirectories of chunks that are older than 24 hours.
C12_OldFilesAndChunkDirsDeleted ==
    (sweepDone /\ sweepIn.max_age_hours = 24 /\ sweepOut.error = None) =>
        Kept = Listed \ Due

C12_Witness ==
    /\ sweepDone
    /\ sweepIn.max_age_hours = 24
    /\ sweepOut.error = None
    /\ UploadPath("j1") \in Listed /\ sweepIn.age[UploadPath("j1")] = 25
    /\ UploadPath("j2") \in Listed /\ sweepIn.age[UploadPath("j2")] = 1
    /\ AudioPath("j1") \in Listed /\ sweepIn.age[AudioPath("j1")] = 25
    /\ Kept \cap {UploadPath("j1"), UploadPath("j2"), AudioPath("j1")}
           = {UploadPath("j2")}

\* C13: when the deletion of one stale entry fails, every other stale
\* entry, of the same directory and of the directories swept after it, is
\* still deleted by that sweep.
C13_SweepContinues ==
    (sweepDone /\ DeletionFailed) =>
        Kept \cap (Due \ {sweepOut.error[1][2]}) = {}

\* C14: the sweep never raises to its caller: whatever fails while it
\* lists, stats or deletes entries, cleanup_old_files returns normally, so
\* the construction of the service goes on to start the worker thread and
\* process_file goes on to the transcription.
C14_SweepNeverRaises ==
    \A j \in JobIds :
        /\ req[j].pc # "init500"
        /\ SweepEvent("init", Some("e")) \in Range(calls[j])
              => w[j].pc # "unstarted"
        /\ SweepEvent("process_file", Some("e")) \in Range(calls[j])
              => \/ w[j].pc \in {"pf_progress", "ta_begin"}
                 \/ w[j].ta # "not called"

C14_Witness ==
    \E j \in JobIds :
        /\ SweepEvent("init", Some("e")) \in Range(calls[j])
        /\ SweepEvent("process_file", Some("e")) \in Range(calls[j])
        /\ w[j].ta = "returned"
        /\ w[j].pc = "finished"

(***************************************************************************)
(* Properties of the transcription driver                                  *)
(***************************************************************************)
\* the collaborator calls of job j's run named by the tags
CallsOf(j, tags) == { k \in 1..Len(calls[j]) : calls[j][k][1] \in tags }

\* C15: when ffprobe prints 0, get_audio_duration raises, the value 0 does
\* not reach the planner, no window is planned and no chunk is extracted.
C15_ZeroDurationRejected ==
    \A j \in JobIds :
        <<"probe", Str(0)>> \in Range(calls[j])
            => /\ w[j].chunks = << >>
               /\ w[j].exc # None
               /\ CallsOf(j, {"extract"}) = {}

\* C16: progress reporting is advisory: process_file called without a
\* registry and job id, or with a job id the registry does not hold, does
\* not fail because of it: it goes on to the transcription, and what it
\* raises is not the failure of a progress update.
C16_ProgressAdvisory ==
    \A j \in JobIds :
        (w[j].kind = "direct" /\ w[j].pc = "caller")
            => /\ w[j].ta # "not called"
               /\ w[j].exc # Some(ProcessingFailed(NoneNotIterable))

\* the messages an exception with the message inner has on its way from
\* transcribe_audio to the worker closure
Wrapped(inner) ==
    { inner, ProcessingFailed(inner),
      UrlProcessingFailed(ProcessingFailed(inner)) }

\* the calls of the collaborators of the chunking pipeline
PipelineCalls == {"probe", "extract", "upload"}

\* C17: when the input path does not exist, transcribe_audio fails with
\* the not-found error before any collaborator is used: no API call, no
\* probe, no extraction and no temporary file in that call.
C17_NotFoundFirst ==
    \A j \in JobIds :
        w[j].input_exists = Some(FALSE)
            => /\ w[j].exc # None
               /\ w[j].exc[1] \in Wrapped(InputNotFound)
               /\ CallsOf(j, {"models.list"} \cup PipelineCalls) = {}
               /\ w[j].made = {}
               /\ w[j].chunks = << >>

C17_Witness ==
    \E j \in JobIds :
        /\ w[j].input_exists = Some(FALSE)
        /\ w[j].ta = "raised"
        /\ w[j].pc = "finished"
        /\ SweepEvent("process_file", None) \in Range(calls[j])

\* C18: in every transcribe_audio run the connection test (models.list)
\* comes before the probe, the planning and every extraction and upload;
\* when it fails the run ends with the connection error and has probed,
\* planned, extracted and uploaded nothing.
C18_ConnectBeforePipeline ==
    \A j \in JobIds :
        /\ \A k \in CallsOf(j, PipelineCalls) :
              \E m \in CallsOf(j, {"models.list"}) : m < k
        /\ w[j].chunks # << >> => CallsOf(j, {"models.list"}) # {}
        /\ <<"models.list", "failed">> \in Range(calls[j])
              => /\ CallsOf(j, PipelineCalls) = {}
                 /\ w[j].chunks = << >>
                 /\ w[j].made = {}
                 /\ w[j].exc # None
                 /\ w[j].exc[1] \in Wrapped(ConnectFailed)

C18_Witness ==
    \E j \in JobIds :
        /\ <<"models.list", "failed">> \in Range(calls[j])
        /\ w[j].ta = "raised"
        /\ w[j].pc = "finished"

\* C19: every job whose worker thread has started eventually has a
\* terminal status (completed or error) in the registry, under fair
\* scheduling and with every external call returning or raising.
C19_EventuallyTerminal ==
    \A j \in JobIds :
        (w[j].pc = "w_begin")
            ~> (j \in DOMAIN active_jobs /\ active_jobs[j].status \in Terminal)

C19_Witness ==
    \E j \in JobIds :
        /\ w[j].kind = "finalize"
        /\ w[j].pc = "finished"
        /\ Len(w[j].chunks) = 2
        /\ CallsOf(j, {"upload"}) # {}
        /\ j \in DOMAIN active_jobs
        /\ active_jobs[j].status \in Terminal

(***************************************************************************)
(* Properties of the chunk planner, continued                              *)
(***************************************************************************)
\* C20 as stated: for every duration each window the planner returns is at
\* most maxChunkLen (600 s) long.
C20_WindowAtMostMax ==
    planDone =>
        \A k \in 1..Len(planOut) :
            WindowLength(planOut[k]) <= Seconds(600)

\* C20 as amended: every window but the last is at most maxChunkLen (600 s)
\* long, and the last or only window, which carries the folded tail and the
\* pad, is at most maxChunkLen + overlap + 0.5 s (610.5 s) long.
C20_WindowAtMostMaxPlusFold ==
    planDone =>
        \A k \in 1..Len(planOut) :
            /\ k < Len(planOut) => WindowLength(planOut[k]) <= Seconds(600)
            /\ WindowLength(planOut[k])
                   <= Seconds(600) + Seconds(10) + HalfSecondPad

C20_Witness ==
    /\ planDone
    /\ planIn = Seconds(1200)
    /\ Len(planOut) = 2
    /\ WindowLength(planOut[1]) = Seconds(600)
    /\ WindowLength(planOut[2]) = Seconds(610) + HalfSecondPad

(***************************************************************************)
(* Properties of the transcription driver's loop                           *)
(***************************************************************************)
\* the positions in job j's log of the events <<tag, Str(n), ...>>
EventsOf(j, tag, n) ==
    { k \in 1..Len(calls[j]) :
        calls[j][k][1] = tag /\ calls[j][k][2] = Str(n) }

\* the chunk numbers a run can have
ChunkNos == 1..(MaxChunks + 1)

\* C21: chunks are processed one after the other and without retry: each
\* window is extracted at most once and uploaded at most once, a chunk is
\* uploaded only after it was extracted, and the extraction of chunk i+1
\* begins only after the text of chunk i was appended.
C21_SequentialNoRetry ==
    \A j \in JobIds :
        /\ \A n \in ChunkNos :
              /\ Cardinality(EventsOf(j, "extract", n)) <= 1
              /\ Cardinality(EventsOf(j, "upload", n)) <= 1
              /\ \A u \in EventsOf(j, "upload", n) :
                    \E x \in EventsOf(j, "extract", n) : x < u
              /\ \A x \in EventsOf(j, "extract", n + 1) :
                    \E t \in EventsOf(j, "text", n) : t < x
        /\ w[j].pc \in {"ta_extract", "ta_upload"} =>
              /\ Len(w[j].transcript_parts) = w[j].i
              /\ \A n \in 1..w[j].i :
                    w[j].transcript_parts[n] = TextOf(j, n)

C21_Witness ==
    \E j \in JobIds :
        /\ w[j].pc = "ta_upload"
        /\ w[j].i = 2
        /\ Len(w[j].chunks) = 3
        /\ EventsOf(j, "extract", 3) # {}
        /\ Len(w[j].transcript_parts) = 2

\* C22: when the extraction of chunk i+1 starts the temp file of chunk i
\* (and of every chunk before it) has been deleted, so at most one temp
\* chunk file of a run is on disk at any time.
C22_OneTempFileAtATime ==
    \A j \in JobIds :
        /\ Cardinality(TempFilesLeft(j)) <= 1
        /\ w[j].pc \in {"ta_loop", "ta_extract"} =>
              \A n \in 1..w[j].i : TempPath(j, n) \notin disk
        /\ w[j].pc \in {"ta_upload", "ta_remove"} =>
              TempFilesLeft(j) = {TempPath(j, ChunkNo(j))}

C22_Witness ==
    \E j \in JobIds :
        /\ w[j].pc = "ta_extract"
        /\ w[j].i = 1
        /\ TempPath(j, 1) \in w[j].made
        /\ TempFilesLeft(j) = {}

\* the positions in job j's log where the progress text of chunk n of
\* total was written
ChunkProgressAt(j, n, total) ==
    { k \in 1..Len(calls[j]) :
        calls[j][k] = <<"progress", "Processing chunk ", Str(n), "/",
                        Str(total), "...">> }

\* C23: for a run with N chunks and a registered job the progress text
\* "Processing chunk i/N..." is written to the job's record before chunk i
\* is extracted or uploaded, once per chunk and in increasing order of i,
\* and a run that returns has written it for every i in 1..N.
C23_ChunkProgressBeforeChunk ==
    \A j \in JobIds :
        (Given(j) /\ j \in DOMAIN active_jobs) =>
            LET total == Len(w[j].chunks)
            IN  /\ \A n \in ChunkNos :
                      /\ Cardinality(ChunkProgressAt(j, n, total)) <= 1
                      /\ \A x \in EventsOf(j, "extract", n)
                                   \cup EventsOf(j, "upload", n) :
                            \E p \in ChunkProgressAt(j, n, total) : p < x
                      /\ \A p \in ChunkProgressAt(j, n + 1, total) :
                            \E q \in ChunkProgressAt(j, n, total) : q < p
                /\ \A k \in 1..Len(calls[j]) :
                      (calls[j][k][1] = "progress"
                         /\ calls[j][k][2] = "Processing chunk ")
                          => \E n \in 1..total :
                                k \in ChunkProgressAt(j, n, total)
                /\ w[j].pc \in {"ta_extract", "ta_upload", "ta_remove"} =>
                      active_jobs[j].progress =
                          <<"Processing chunk ", Str(ChunkNo(j)), "/",
                            Str(total), "...">>
                /\ w[j].ta = "returned" =>
                      \A n \in 1..total : ChunkProgressAt(j, n, total) # {}

C23_Witness ==
    \E j \in JobIds :
        /\ j \in DOMAIN active_jobs
        /\ w[j].pc = "ta_remove"
        /\ Len(w[j].chunks) = 3
        /\ active_jobs[j].progress =
               <<"Processing chunk ", "3", "/", "3", "...">>
        /\ Cardinality(CallsOf(j, {"progress"})) = 5

(***************************************************************************)
(* Properties of the sweep's place in the service                          *)
(***************************************************************************)
\* the positions in job j's log of the sweeps run by caller
SweepsBy(j, caller) ==
    { k \in 1..Len(calls[j]) :
        calls[j][k][1] = "sweep" /\ calls[j][k][2] = caller }

\* what process_file does after its sweep: the progress texts it and
\* transcribe_audio write and every collaborator call
WorkOfProcessFile ==
    {"progress", "models.list", "probe", "extract", "upload", "text",
     "analysis", "email"}

\* C24: the sweep runs exactly once in the construction of a job's
\* TranscriptionService and exactly once in its process_file call, and
\* that one comes after the construction and before every progress text,
\* probe, extraction, upload and other collaborator call of process_file.
C24_SweepOncePerConstructionAndCall ==
    \A j \in JobIds :
        /\ Cardinality(SweepsBy(j, "init")) <= 1
        /\ Cardinality(SweepsBy(j, "process_file")) <= 1
        /\ w[j].pc # "unstarted" => SweepsBy(j, "init") # {}
        /\ req[j].pc \in {"idle", "rejected"} => CallsOf(j, {"sweep"}) = {}
        /\ \A s \in SweepsBy(j, "process_file") :
              \E c \in SweepsBy(j, "init") : c < s
        /\ \A k \in CallsOf(j, WorkOfProcessFile) :
              \E s \in SweepsBy(j, "process_file") : s < k
        /\ (w[j].pc = "pf_progress" \/ w[j].ta # "not called") =>
              SweepsBy(j, "process_file") # {}
        /\ w[j].pc \in {"w_begin", "pu_download", "pu_glob", "pf_sweep"} =>
              SweepsBy(j, "process_file") = {}

C24_Witness ==
    \E j \in JobIds :
        /\ w[j].pc = "pf_analysis"
        /\ SweepsBy(j, "init") = {1}
        /\ Cardinality(SweepsBy(j, "process_file")) = 1
        /\ Cardinality(CallsOf(j, {"extract"})) = 2

(***************************************************************************)
(* Properties of the chunk planner: the stride                             *)
(***************************************************************************)
\* C25: for every duration above 600 s the window starts begin at 0 and do
\* not decrease, each next start is the previous one plus the stride of
\* 590 s, every window but the last is exactly 600 s long, and adjacent
\* windows overlap by exactly 10 s.
C25_StrideAndOverlap ==
    (planDone /\ planIn > Seconds(600))
        => /\ Len(planOut) >= 1
           /\ WindowStart(planOut[1]) = 0
           /\ \A k \in 1..(Len(planOut) - 1) :
                 /\ WindowStart(planOut[k]) <= WindowStart(planOut[k + 1])
                 /\ WindowStart(planOut[k + 1])
                        = WindowStart(planOut[k]) + Seconds(590)
                 /\ WindowLength(planOut[k]) = Seconds(600)
                 /\ WindowEnd(planOut[k]) - WindowStart(planOut[k + 1])
                        = Seconds(10)

C25_Witness ==
    /\ planDone
    /\ planIn = Seconds(1850)
    /\ Len(planOut) = 4
    /\ WindowStart(planOut[4]) = Seconds(1770)
    /\ WindowLength(planOut[3]) = Seconds(600)

(***************************************************************************)
(* Properties of the job registry under concurrent jobs                    *)
(***************************************************************************)
\* the record of job k in the registry, if there is one
RecordOf(k) == IF k \in DOMAIN active_jobs THEN Some(active_jobs[k]) ELSE None

\* the step is one of the started worker thread of job k and of nothing
\* else: no other thread moves, no handler answers, no poll is served
StepOfWorker(k) ==
    /\ w[k].pc \notin {"unstarted", "finished", "escaped"}
    /\ w'[k].pc # w[k].pc
    /\ \A i \in JobIds \ {k} : w'[i] = w[i]
    /\ req' = req
    /\ poll' = poll

\* C26: single writer per key: every step that creates or changes a job's
\* record (creation, progress, completion, failure) is a step of that
\* job's own worker thread; the handlers, the polls and the other job's
\* worker leave the record as it is, in every interleaving.
C26_SingleWriterPerKey ==
    [][\A k \in JobIds : RecordOf(k)' # RecordOf(k) => StepOfWorker(k)]_vars

C26_Witness ==
    /\ "j1" \in DOMAIN active_jobs
    /\ "j2" \in DOMAIN active_jobs
    /\ active_jobs["j1"].status = "completed"
    /\ active_jobs["j2"].status = "processing"
    /\ active_jobs["j2"].progress = <<"Processing chunk ", "1", "/", "1", "...">>
    /\ w["j1"].pc = "finished"
    /\ w["j2"].pc = "ta_upload"

(***************************************************************************)
(* Properties of the sweep under a chunked upload in progress              *)
(***************************************************************************)
\* upload u is in progress: the client has sent a chunk and no finalize
\* request has combined its chunks
InFlight(u) ==
    /\ chunked[u] > 0
    /\ \A j \in JobIds :
          req[j].upload_id = Some(u) => req[j].pc = "notfound"

\* the step holds a sweep that met no failure, run by a constructor or by
\* process_file for some job
SweepStep ==
    \E j \in JobIds, caller \in {"init", "process_file"} :
        calls'[j] = Append(calls[j], SweepEvent(caller, None))

\* C27: the sweep has no exemption for work in progress: a sweep that runs
\* while a chunked upload is in progress deletes the upload's chunk
\* directory when its modification time is older than the threshold, and
\* a finalize request that comes when the directory is gone is answered
\* 'Upload not found' and starts no job.
C27_SweepDeletesInFlightChunks ==
    [][\A u \in UploadIds :
          /\ (InFlight(u) /\ ChunkDir(u) \in disk \cap stale /\ SweepStep)
                => ChunkDir(u) \notin disk'
          /\ \A j \in JobIds :
                (/\ req[j].pc = "idle"
                 /\ req'[j].upload_id = Some(u)
                 /\ ChunkDir(u) \notin disk)
                    => /\ req'[j].pc = "notfound"
                       /\ w'[j] = w[j]
                       /\ active_jobs' = active_jobs]_vars

C27_Witness ==
    \E u \in UploadIds :
        /\ chunked[u] > 0
        /\ ChunkDir(u) \notin disk
        /\ req["j2"] = [pc |-> "notfound", upload_id |-> Some(u)]
        /\ w["j1"].kind = "upload"
        /\ calls["j1"] = <<SweepEvent("init", None)>>

(***************************************************************************)
(* Properties of the chunk planner: the max_duration argument              *)
(***************************************************************************)
RECURSIVE Strided(_, _, _)
\* the strided windows from start on: min(maxChunkLen, remaining) long
\* each, until the remaining duration is at most maxChunkLen + overlap and
\* the final window takes it with the pad
Strided(duration, maxChunkLen, start) ==
    LET remaining == duration - start
    IN  IF remaining <= maxChunkLen + overlap
        THEN << <<start, remaining + HalfSecondPad>> >>
        ELSE << <<start, Min(maxChunkLen, remaining)>> >>
                 \o Strided(duration, maxChunkLen,
                            start + maxChunkLen - overlap)

\* the two cases of the planner's contract
TwoCase(duration, maxChunkLen) ==
    IF duration <= maxChunkLen
    THEN << <<0, duration + HalfSecondPad>> >>
    ELSE Strided(duration, maxChunkLen, 0)

\* C28: for every duration and every maxChunkLen argument the planner
\* returns the single window (0, duration + 0.5) when duration <=
\* maxChunkLen and otherwise the strided sequence computed with that
\* maxChunkLen.
C28_TwoCaseForAnyMax ==
    planDone => planOut = TwoCase(planIn, planMax)

(***************************************************************************)
(* Properties of process_file's finally                                    *)
(***************************************************************************)
\* process_file was called for job j and has just returned or raised: the
\* worker is at the caller's next statement
ProcessFileExited(j) ==
    /\ w[j].pc = (IF w[j].kind = "url" THEN "pu_finally"
                  ELSE IF w[j].kind = "direct" THEN "caller"
                  ELSE IF w[j].exc = None THEN "w_complete" ELSE "w_except")
    /\ SweepsBy(j, "process_file") # {}

\* the outcome is the one the stages produced: the result dict with the
\* transcript and the analysis, or the wrapped error of the stage that
\* failed
OutcomeOfStages(j) ==
    IF w[j].exc = None
    THEN /\ w[j].result # None
         /\ w[j].result[1].transcript = w[j].transcript[1]
         /\ w[j].result[1].analysis = w[j].analysis[1]
    ELSE /\ w[j].result = None
         /\ w[j].exc[1][1] = "Processing failed: "

\* C29 as stated: after process_file returns or raises, the file at
\* file_path no longer exists, and a failure to delete it does not change
\* the outcome.
C29_InputDeletedOnEveryExit ==
    \A j \in JobIds :
        ProcessFileExited(j) =>
            /\ w[j].file_path[1] \notin disk
            /\ OutcomeOfStages(j)

\* C29 as amended: after process_file returns or raises, the file at
\* file_path no longer exists unless its removal failed, and a removal
\* that failed has not changed the outcome.
C29_InputDeletedUnlessRemovalFails ==
    \A j \in JobIds :
        ProcessFileExited(j) =>
            /\ w[j].file_path[1] \in disk => w[j].cleanup_failed
            /\ OutcomeOfStages(j)

C29_Witness ==
    \E j \in JobIds :
        /\ ProcessFileExited(j)
        /\ w[j].cleanup_failed
        /\ w[j].file_path[1] \in disk
        /\ w[j].exc = None
        /\ w[j].result # None

(***************************************************************************)
(* Properties of the records of the job registry                           *)
(***************************************************************************)
\* C30: in every state each record of the registry has the status
\* processing, completed or error; its result is set only when the status
\* is completed and its error only when the status is error, so no record
\* carries both.
C30_RecordWellFormed ==
    \A j \in DOMAIN active_jobs :
        /\ active_jobs[j].status \in {"processing", "completed", "error"}
        /\ active_jobs[j].result # None => active_jobs[j].status = "completed"
        /\ active_jobs[j].error # None => active_jobs[j].status = "error"
        /\ ~(active_jobs[j].result # None /\ active_jobs[j].error # None)

C30_Witness ==
    \E j \in DOMAIN active_jobs :
        /\ active_jobs[j].status = "completed"
        /\ active_jobs[j].result # None
        /\ active_jobs[j].error = None
        /\ w[j].kind = "url"
        /\ w[j].pc = "finished"

(***************************************************************************)
(* Properties of the order of process_file's stages                        *)
(***************************************************************************)
\* the collaborator calls of the transcription stage
TranscribeCalls == {"models.list", "probe", "extract", "upload", "text"}

\* every call with a tag of earlier comes, in job j's log, before every
\* call with a tag of later
Precede(j, earlier, later) ==
    \A a \in CallsOf(j, earlier), b \in CallsOf(j, later) : a < b

\* C31: the stages of process_file run in the order sweep, transcribe,
\* analyse, email, each at most once; the analysis API is called only after
\* transcribe_audio returned a transcript, the email step runs only after
\* the analysis succeeded and with send_email set, and a result exists only
\* when the transcription and the analysis both succeeded.
C31_StagesInOrder ==
    \A j \in JobIds :
        /\ \A k \in CallsOf(j, TranscribeCalls \cup {"analysis", "email"}) :
              \E s \in SweepsBy(j, "process_file") : s < k
        /\ Precede(j, TranscribeCalls, {"analysis"})
        /\ Precede(j, {"analysis"}, {"email"})
        /\ Cardinality(CallsOf(j, {"analysis"})) <= 1
        /\ Cardinality(CallsOf(j, {"email"})) <= 1
        /\ CallsOf(j, {"analysis"}) # {} =>
              /\ w[j].ta = "returned"
              /\ w[j].transcript # None
        /\ CallsOf(j, {"email"}) # {} =>
              /\ CallsOf(j, {"analysis"}) # {}
              /\ w[j].analysis # None
              /\ w[j].send_email
        /\ w[j].result # None =>
              /\ w[j].ta = "returned"
              /\ w[j].transcript # None
              /\ w[j].analysis # None
              /\ w[j].result[1].email_result # None =>
                    CallsOf(j, {"email"}) # {}
        /\ (j \in DOMAIN active_jobs /\ active_jobs[j].result # None) =>
              w[j].result = active_jobs[j].result

\* the analysis of a job that asked for the email failed: the email step
\* did not run and no result exists
C31_Witness ==
    \E j \in JobIds :
        /\ w[j].send_email
        /\ w[j].ta = "returned"
        /\ CallsOf(j, {"analysis"}) # {}
        /\ w[j].analysis = None
        /\ w[j].exc # None
        /\ CallsOf(j, {"email"}) = {}
        /\ w[j].result = None
        /\ w[j].pc = "w_except"

(***************************************************************************)
(* Properties of the planner's loop                                        *)
(***************************************************************************)
\* the loop was left by its break: the window appended last starts at the
\* value start still has and ends at or after the duration
EndedByCoveringWindow ==
    /\ planOut # << >>
    /\ WindowStart(planOut[Len(planOut)]) = planStart
    /\ WindowEnd(planOut[Len(planOut)]) >= planIn

\* C32: for every duration above 600 s, with max_duration 600 and overlap
\* 10, the window loop of get_audio_chunks comes to its end, the iteration
\* that ends it has appended a window whose end is at or after the
\* duration, and the windows are the ones get_audio_chunks returns.
C32_PlannerTerminates ==
    <>[](/\ planDone
         /\ EndedByCoveringWindow
         /\ planOut = get_audio_chunks(planIn, planMax))

\* the loop of a 1800 s file ended in its fourth iteration
C32_Witness ==
    /\ planDone
    /\ planIn = Seconds(1800)
    /\ Len(planOut) = 4
    /\ planStart = Seconds(1770)
    /\ EndedByCoveringWindow

=============================================================================
